---- MODULE Spec2Model ----
(***************************************************************************)
(* Chat session engine of Whatsapplite.py: the presence registry           *)
(* (online_users, sid_to_user), Socket.IO room membership, the message     *)
(* table and the socket event handlers.                                    *)
(*                                                                         *)
(* Conventions                                                             *)
(*  - None stands for Python's None, also for a field absent from an       *)
(*    event payload (dict.get without default returns None).               *)
(*  - out is the list of events emitted by the handler that ran last; each *)
(*    entry names the event, its payload and the connections it is         *)
(*    addressed to, computed when the emit call runs.                      *)
(*  - list(online_users.keys()) is modelled by the key set (the order of   *)
(*    the list is not modelled).                                           *)
(*  - datetime.utcnow() is a clock that advances with every reading, so    *)
(*    no two rows carry the same ts.                                       *)
(*  - A message id is named by its rank of creation ("m1" is the first id  *)
(*    secrets.token_hex returned); a payload may name any id, stored or    *)
(*    not.                                                                 *)
(*  - was is the table before the event handled last; wire collects, in    *)
(*    the order of the emit calls, the msg_update events of the handlers   *)
(*    that are run step by step.                                           *)
(***************************************************************************)
EXTENDS Integers, Sequences, FiniteSets, TLC

None == "None"

\* ---------------------------------------------------------------- domains
Sids == {"s1", "s2"}
Users == {"alice", "bob"}
Tokens == {"t1", "t2"}
Rooms == {"main", "dev"}
Names == {"alice", "bob"}
Emojis == {"+1"}
Texts == {"hi"}

\* rows the table may hold (the two seed rows included)
MaxMsgs == 3
\* events handled in one run of the room and message handlers
MaxEvents == 3
\* .limit(500) of on_join, scaled down
HistoryCap == 2

\* secrets.token_hex(10): the n-th id generated
IdNames == <<"m1", "m2", "m3", "m4", "m5", "m6">>
Ids == {IdNames[i] : i \in 1..MaxMsgs}

VARIABLES
    conn,          \* sid -> "new" | "open" | "closed"  (sids are never reused)
    sid_to_user,   \* dict sid -> username
    online_users,  \* dict username -> set of sids
    devices,       \* Device rows: token -> username
    issued,        \* tokens gen_token has returned so far
    members,       \* Socket.IO rooms each sid has entered
    messages,      \* rows of the messages table, in insertion order
    clock,         \* what datetime.utcnow() returns next
    last,          \* the event handled last: handler, connection, payload
    nev,           \* events handled so far (room and message handlers)
    task,          \* sid -> the react handler it is in the middle of, if any
    done,          \* react handlers that ran in two steps, once finished
    was,           \* the messages table as it was before the last event
    wire,          \* the msg_update events of handlers run in steps, as emitted
    out            \* events emitted by the last handler

vars == <<conn, sid_to_user, online_users, devices, issued, members,
          messages, clock, last, nev, task, done, was, wire, out>>

presence == <<sid_to_user, online_users, devices, issued>>

store == <<messages, clock>>

\* ---------------------------------------------------------------- helpers
Put(f, k, v) == [x \in DOMAIN f \cup {k} |-> IF x = k THEN v ELSE f[x]]

Pop(f, k) == [x \in DOMAIN f \ {k} |-> f[x]]

Empty == [x \in {} |-> None]

Contains(arr, x) == \E i \in 1..Len(arr) : arr[i] = x

Remove(arr, x) ==
    LET i == CHOOSE j \in 1..Len(arr) : arr[j] = x /\ \A k \in 1..(j - 1) : arr[k] # x
    IN SubSeq(arr, 1, i - 1) \o SubSeq(arr, i + 1, Len(arr))

\* dict.get(key, default): the default when the key is absent
GetOr(v, default) == IF v = None THEN default ELSE v

UserRoom(u) == IF u = "alice" THEN "user:alice" ELSE "user:bob"

Open == {c \in Sids : conn[c] = "open"}

\* socketio.emit(ev, data): no `to`, every connected client of the namespace;
\* the connection whose handler runs is left out when it is going away
Everyone(self) == Open \ {self}

\* socketio.emit(ev, data, to=room): the sids that entered the room; to=None
\* addresses the whole namespace
Recipients(room) == IF room = None THEN Open ELSE {c \in Open : room \in members[c]}

Emission(ev, data, to) == [ev |-> ev, data |-> data, to |-> to]

Event(op, c, d) == [op |-> op, sid |-> c, d |-> d]

\* ------------------------------------------------------------ the table
Tombstone == "(message deleted)"

Row(id, room, author, text, ts) ==
    [msg_id |-> id, room |-> room, author |-> author, text |-> text,
     mtype |-> "text", file |-> None, ts |-> ts, edited |-> FALSE,
     deleted |-> FALSE, reactions |-> Empty, pinned |-> FALSE, read_by |-> <<>>]

mk_msg_db(author, text, room) ==
    Row(IdNames[Len(messages) + 1], room, author, text, clock)

\* "ts" stands for the formatted time; no handler reads it back
message_to_dict(m) ==
    [id |-> m.msg_id, room |-> m.room, name |-> m.author, msg |-> m.text,
     type |-> m.mtype, file |-> m.file, ts |-> m.ts, edited |-> m.edited,
     deleted |-> m.deleted, reactions |-> m.reactions, pinned |-> m.pinned,
     read_by |-> m.read_by]

\* sess.query(Message).filter_by(msg_id=msg_id).first(): the row's position, 0 if none
Find(msg_id) ==
    IF \E i \in 1..Len(messages) : messages[i].msg_id = msg_id
    THEN CHOOSE i \in 1..Len(messages) : messages[i].msg_id = msg_id
    ELSE 0

\* sess.query(Message).filter_by(room=room).all(): positions, insertion order
InRoom(room) == {i \in 1..Len(messages) : messages[i].room = room}

\* the rows at positions S in the order `key` gives them, least first
RECURSIVE Ascending(_, _)
Ascending(S, key) ==
    IF S = {} THEN <<>>
    ELSE LET i == CHOOSE j \in S : \A k \in S : key[j] <= key[k]
         IN <<messages[i]>> \o Ascending(S \ {i}, key)

ByTs == [i \in 1..Len(messages) |-> messages[i].ts]

ByRowid == [i \in 1..Len(messages) |-> i]

Limit(rows, n) == SubSeq(rows, 1, IF Len(rows) < n THEN Len(rows) ELSE n)

\* .filter_by(room=room).order_by(Message.ts.asc()).limit(500).all()
HistoryRows(room) == Limit(Ascending(InRoom(room), ByTs), HistoryCap)

\* The JSON columns are plain JSON (no mutation tracking).  A handler does
\*     x = m.col or <fresh empty>;  <change x in place>;  m.col = x;  commit
\* When the loaded value is empty, x is a fresh object and the assignment is a
\* change the commit writes.  When it is not, x is the loaded object itself:
\* at flush the unit of work compares the attribute with the value it replaced,
\* which is the same object, finds them equal and writes nothing.
\* `stored` is what the row holds when the commit runs.
Flush(loaded, value, stored) == IF loaded = <<>> THEN value ELSE stored

\* the same within one handler that nothing interleaves with
Committed(loaded, value) == Flush(loaded, value, loaded)

\* rx.get(emoji, []); remove name if present, else append; rx[emoji] = arr
Toggle(rx, emoji, name) ==
    LET arr == IF emoji \in DOMAIN rx THEN rx[emoji] ELSE <<>>
    IN Put(rx, emoji, IF Contains(arr, name) THEN Remove(arr, name)
                      ELSE Append(arr, name))

\* bool(d.get('pin'))
PyBool(v) == v = "True"

\* ------------------------------------------------------------------- Init
\* seed_demo on an empty database: two rows in "main"
Init ==
    /\ conn = [c \in Sids |-> "new"]
    /\ sid_to_user = Empty
    /\ online_users = Empty
    /\ devices = Empty
    /\ issued = {}
    /\ members = [c \in Sids |-> {}]
    /\ messages = <<Row(IdNames[1], "main", "System", "welcome", 1),
                    Row(IdNames[2], "main", "Alice", "say hi", 2)>>
    /\ clock = 3
    /\ nev = 0
    /\ task = [c \in Sids |-> <<>>]
    /\ done = {}
    /\ was = <<>>
    /\ wire = <<>>
    /\ last = Event("start", None, Empty)
    /\ out = <<>>

\* ------------------------------------------------------------ HTTP routes
login(u) ==
    \E t \in Tokens \ issued :
        /\ devices' = Put(devices, t, u)
        /\ issued' = issued \cup {t}
        /\ last' = Event("login", None, [user |-> u])
        /\ out' = <<>>
        /\ UNCHANGED <<conn, sid_to_user, online_users, members, store>>

logout(t) ==
    /\ devices' = Pop(devices, t)
    /\ last' = Event("logout", None, [token |-> t])
    /\ out' = <<>>
    /\ UNCHANGED <<conn, sid_to_user, online_users, issued, members, store>>

\* -------------------------------------------------------- socket handlers
on_connect(c) ==
    /\ conn[c] = "new"
    /\ conn' = [conn EXCEPT ![c] = "open"]
    /\ last' = Event("connect", c, Empty)
    /\ out' = <<>>
    /\ UNCHANGED <<presence, members, store>>

\* a faulty lookup: a token without a Device row is taken for alice's
AnyHolder(token) == IF token \in DOMAIN devices THEN devices[token] ELSE "alice"

\* sess.query(Device).filter_by(token=token).first(), then d.user.username
Holder(token) == IF token \in DOMAIN devices THEN devices[token] ELSE None

on_auth(c, d) ==
    /\ conn[c] = "open"
    /\ last' = Event("auth", c, d)
    /\ IF d.token = None \/ Holder(d.token) = None
       THEN /\ out' = <<>>
            /\ UNCHANGED <<sid_to_user, online_users, members>>
       ELSE LET user == Holder(d.token)
                s == IF user \in DOMAIN online_users THEN online_users[user] ELSE {}
            IN /\ sid_to_user' = Put(sid_to_user, c, user)
               /\ online_users' = Put(online_users, user, s \cup {c})
               /\ members' = [members EXCEPT ![c] = @ \cup {UserRoom(user)}]
               /\ out' = <<Emission("presence", [user |-> user, online |-> TRUE], Open),
                           Emission("online_update",
                                    [users |-> DOMAIN online_users'], Open)>>
    /\ UNCHANGED <<conn, devices, issued, store>>

\* a faulty discard: the user's whole set goes with the connection
DiscardAll(s, sid) == {}

\* s.discard(sid)
Discard(s, sid) == s \ {sid}

on_disconnect(c) ==
    /\ conn[c] = "open"
    /\ sid_to_user' = Pop(sid_to_user, c)
    /\ IF c \in DOMAIN sid_to_user
       THEN LET user == sid_to_user[c]
                update == Emission("online_update",
                                   [users |-> DOMAIN online_users'], Everyone(c))
            IN /\ last' = Event("disconnect", c, [user |-> user])
               /\ IF user \in DOMAIN online_users /\ online_users[user] # {}
                  THEN LET s == Discard(online_users[user], c)
                       IN IF s = {}
                          THEN /\ online_users' = Pop(online_users, user)
                               /\ out' = <<Emission("presence",
                                              [user |-> user, online |-> FALSE],
                                              Everyone(c)),
                                           update>>
                          ELSE /\ online_users' = Put(online_users, user, s)
                               /\ out' = <<update>>
                  ELSE /\ UNCHANGED online_users
                       /\ out' = <<update>>
       ELSE /\ last' = Event("disconnect", c, [user |-> None])
            /\ UNCHANGED online_users
            /\ out' = <<>>
    \* the server then removes the sid from every room it entered
    /\ conn' = [conn EXCEPT ![c] = "closed"]
    /\ members' = [members EXCEPT ![c] = {}]
    /\ UNCHANGED <<devices, issued, store>>

on_join(c, d) ==
    /\ conn[c] = "open"
    /\ LET room == GetOr(d.room, "main")
       IN /\ members' = [members EXCEPT ![c] = @ \cup {room}]
          /\ out' = <<Emission("history",
                               [rows |-> [i \in DOMAIN HistoryRows(room) |->
                                             message_to_dict(HistoryRows(room)[i])]],
                               {c})>>
    /\ last' = Event("join", c, d)
    /\ UNCHANGED <<conn, presence, store>>

on_msg(c, d) ==
    /\ conn[c] = "open"
    /\ Len(messages) < MaxMsgs
    /\ LET room == GetOr(d.room, "main")
           msg == mk_msg_db(GetOr(d.name, "Anon"), GetOr(d.msg, ""), room)
       IN /\ messages' = Append(messages, msg)
          /\ out' = <<Emission("msg", message_to_dict(msg), Recipients(room)),
                      Emission("sent", [id |-> msg.msg_id], {c})>>
    /\ clock' = clock + 1
    /\ last' = Event("msg", c, d)
    /\ UNCHANGED <<conn, presence, members>>

on_typing(c, d) ==
    /\ conn[c] = "open"
    /\ LET room == GetOr(d.room, "main")
       IN out' = <<Emission("typing", [room |-> room, name |-> GetOr(d.name, "Anon")],
                            Recipients(room) \ {c})>>
    /\ last' = Event("typing", c, d)
    /\ UNCHANGED <<conn, presence, members, store>>

on_delivered(c, d) ==
    /\ conn[c] = "open"
    /\ out' = <<Emission("delivered", [id |-> d.id], Recipients(d.room))>>
    /\ last' = Event("delivered", c, d)
    /\ UNCHANGED <<conn, presence, members, store>>

\* arr.append(name); m.read_by = arr; sess.commit()
Mark(arr, name) == Committed(arr, Append(arr, name))

on_read(c, d) ==
    /\ conn[c] = "open"
    /\ last' = Event("read", c, d)
    /\ IF d.id = None \/ d.room = None \/ d.name = None
       THEN /\ out' = <<>>
            /\ UNCHANGED messages
       ELSE LET i == Find(d.id)
            IN /\ IF i # 0 /\ ~Contains(messages[i].read_by, d.name)
                  THEN messages' = [messages EXCEPT ![i].read_by = Mark(@, d.name)]
                  ELSE UNCHANGED messages
               /\ out' = <<Emission("read", [id |-> d.id, name |-> d.name],
                                    Recipients(d.room))>>
    /\ UNCHANGED <<conn, presence, members, clock>>

\* the rows of the room as the handler's session holds them after the loop
MarkedRows(room, name) ==
    LET rows == Ascending(InRoom(room), ByRowid)
    IN [k \in DOMAIN rows |->
           IF name # None /\ ~Contains(rows[k].read_by, name)
           THEN [rows[k] EXCEPT !.read_by = Append(@, name)]
           ELSE rows[k]]

on_read_all(c, d) ==
    /\ conn[c] = "open"
    /\ last' = Event("read_all", c, d)
    /\ LET changed == \E i \in InRoom(d.room) :
                          d.name # None /\ ~Contains(messages[i].read_by, d.name)
           rows == MarkedRows(d.room, d.name)
       IN out' = IF changed
                 THEN <<Emission("read_update",
                                 [rows |-> [k \in DOMAIN rows |-> message_to_dict(rows[k])]],
                                 Recipients(d.room))>>
                 ELSE <<>>
    \* the session is dropped without a commit
    /\ UNCHANGED <<conn, presence, members, store>>

\* if m: <change m>; sess.commit(); socketio.emit('msg_update', ..., to=room)
Update(i, m, room) ==
    /\ messages' = [messages EXCEPT ![i] = m]
    /\ out' = <<Emission("msg_update", message_to_dict(m), Recipients(room))>>

NotFound ==
    /\ out' = <<>>
    /\ UNCHANGED messages

\* a faulty delete: the reactions are cleared with the body
Wiped(m) == [m EXCEPT !.deleted = TRUE, !.text = Tombstone, !.reactions = Empty]

\* m.deleted = True; m.text = "(message deleted)"
Deleted(m) == [m EXCEPT !.deleted = TRUE, !.text = Tombstone]

on_delete(c, d) ==
    /\ conn[c] = "open"
    /\ last' = Event("delete_msg", c, d)
    /\ LET i == Find(d.id)
       IN IF i # 0
          THEN Update(i, Deleted(messages[i]), d.room)
          ELSE NotFound
    /\ UNCHANGED <<conn, presence, members, clock>>

on_edit(c, d) ==
    /\ conn[c] = "open"
    /\ last' = Event("edit_msg", c, d)
    /\ LET i == Find(d.id)
       IN IF i # 0
          THEN /\ Update(i, [messages[i] EXCEPT !.text = d.msg, !.edited = TRUE,
                                                !.ts = clock], d.room)
               /\ clock' = clock + 1
          ELSE /\ NotFound
               /\ UNCHANGED clock
    /\ UNCHANGED <<conn, presence, members>>

on_react(c, d) ==
    /\ conn[c] = "open"
    /\ last' = Event("react", c, d)
    /\ IF d.emoji = None \/ d.name = None
       THEN NotFound
       ELSE LET i == Find(d.id)
            IN IF i # 0
               THEN Update(i, [messages[i] EXCEPT !.reactions =
                                  Committed(@, Toggle(@, d.emoji, d.name))], d.room)
               ELSE NotFound
    /\ UNCHANGED <<conn, presence, members, clock>>

on_pin(c, d) ==
    /\ conn[c] = "open"
    /\ last' = Event("pin_msg", c, d)
    /\ LET i == Find(d.id)
       IN IF i # 0
          THEN Update(i, [messages[i] EXCEPT !.pinned = PyBool(d.pin)], d.room)
          ELSE NotFound
    /\ UNCHANGED <<conn, presence, members, clock>>

\* ------------------------------------------------------------- payloads
OrNone(S) == S \cup {None}

AuthData == [token : OrNone(Tokens)]
JoinData == [room : OrNone(Rooms)]
MsgData == [room : OrNone(Rooms), name : OrNone(Names), msg : OrNone(Texts)]
TypingData == [room : OrNone(Rooms), name : OrNone(Names)]
DeliveredData == [id : OrNone(Ids), room : OrNone(Rooms)]
ReadData == [id : OrNone(Ids), room : OrNone(Rooms), name : OrNone(Names)]
ReadAllData == [room : OrNone(Rooms), name : OrNone(Names)]
DeleteData == [room : OrNone(Rooms), id : OrNone(Ids)]
EditData == [room : OrNone(Rooms), id : OrNone(Ids), msg : OrNone(Texts)]
ReactData == [room : OrNone(Rooms), id : OrNone(Ids), emoji : OrNone(Emojis),
              name : OrNone(Names)]
PinData == [room : OrNone(Rooms), id : OrNone(Ids), pin : {"True", "False", None}]

\* ------------------------------------------- on_react, step by step
\* Handlers of different connections run in different threads.  on_react in
\* two steps: the query that loads the row into the handler's session, then
\* the change, the commit and the emit.  `during` collects the connections
\* whose react handler is in flight at the same time.
InFlight == {c \in Sids : task[c] # <<>>}

Finished(c, d, during) == [sid |-> c, d |-> d, during |-> during]

react_load(c, d) ==
    /\ conn[c] = "open"
    /\ task[c] = <<>>
    /\ \A r \in done : r.sid # c
    /\ last' = Event("react", c, d)
    /\ out' = <<>>
    /\ IF d.emoji = None \/ d.name = None \/ Find(d.id) = 0
       THEN /\ done' = done \cup {Finished(c, d, {})}
            /\ UNCHANGED task
       ELSE /\ task' = [x \in Sids |->
                          IF x = c
                          THEN <<[d |-> d, i |-> Find(d.id),
                                  loaded |-> messages[Find(d.id)].reactions,
                                  during |-> InFlight]>>
                          ELSE IF task[x] # <<>>
                               THEN <<[task[x][1] EXCEPT !.during = @ \cup {c}]>>
                               ELSE <<>>]
            /\ UNCHANGED done
    /\ UNCHANGED <<conn, presence, members, store>>

react_commit(c) ==
    /\ task[c] # <<>>
    /\ LET t == task[c][1]
           m == [messages[t.i] EXCEPT !.reactions =
                    Flush(t.loaded, Toggle(t.loaded, t.d.emoji, t.d.name), @)]
       IN /\ Update(t.i, m, t.d.room)
          /\ done' = done \cup {Finished(c, t.d, t.during)}
    /\ task' = [task EXCEPT ![c] = <<>>]
    /\ UNCHANGED <<conn, presence, members, clock, last>>

\* -------------------------------------------- on_read, step by step
\* on_read in two steps, as on_react above: the query that loads the row,
\* then the append, the commit and the emit.
read_load(c, d) ==
    /\ conn[c] = "open"
    /\ task[c] = <<>>
    /\ nev < MaxEvents
    /\ nev' = nev + 1
    /\ last' = Event("read", c, d)
    /\ was' = messages
    /\ IF d.id = None \/ d.room = None \/ d.name = None
       THEN /\ out' = <<>>
            /\ UNCHANGED task
       ELSE IF Find(d.id) = 0
            THEN /\ out' = <<Emission("read", [id |-> d.id, name |-> d.name],
                                      Recipients(d.room))>>
                 /\ UNCHANGED task
            ELSE /\ out' = <<>>
                 /\ task' = [task EXCEPT ![c] =
                                <<[d |-> d, i |-> Find(d.id),
                                   loaded |-> messages[Find(d.id)].read_by]>>]
    /\ UNCHANGED <<conn, presence, members, store, done, wire>>

read_commit(c) ==
    /\ task[c] # <<>>
    /\ LET t == task[c][1]
       IN /\ IF ~Contains(t.loaded, t.d.name)
             THEN messages' = [messages EXCEPT ![t.i].read_by =
                                  Flush(t.loaded, Append(t.loaded, t.d.name), @)]
             ELSE UNCHANGED messages
          /\ out' = <<Emission("read", [id |-> t.d.id, name |-> t.d.name],
                               Recipients(t.d.room))>>
    /\ was' = messages
    /\ task' = [task EXCEPT ![c] = <<>>]
    /\ UNCHANGED <<conn, presence, members, clock, last, nev, done, wire>>

\* -------------------------------------------- on_edit, step by step
\* on_edit in three steps, between which the handler of another connection
\* may run: the query, the change and the commit; message_to_dict(m), which
\* reloads the row the commit expired and so reads what the table holds by
\* then; the emit.
edit_commit(c, d) ==
    /\ conn[c] = "open"
    /\ task[c] = <<>>
    /\ nev < MaxEvents
    /\ nev' = nev + 1
    /\ last' = Event("edit_msg", c, d)
    /\ was' = messages
    /\ out' = <<>>
    /\ LET i == Find(d.id)
       IN IF i # 0
          THEN /\ messages' = [messages EXCEPT ![i].text = d.msg, ![i].edited = TRUE,
                                               ![i].ts = clock]
               /\ clock' = clock + 1
               /\ task' = [task EXCEPT ![c] = <<[d |-> d, i |-> i, built |-> <<>>]>>]
          ELSE UNCHANGED <<store, task>>
    /\ UNCHANGED <<conn, presence, members, done, wire>>

edit_build(c) ==
    /\ task[c] # <<>>
    /\ task[c][1].built = <<>>
    /\ LET t == task[c][1]
       IN task' = [task EXCEPT ![c] =
                      <<[t EXCEPT !.built = <<message_to_dict(messages[t.i])>>]>>]
    /\ UNCHANGED <<conn, presence, members, store, last, nev, done, was, wire, out>>

edit_emit(c) ==
    /\ task[c] # <<>>
    /\ task[c][1].built # <<>>
    /\ LET e == Emission("msg_update", task[c][1].built[1],
                         Recipients(task[c][1].d.room))
       IN /\ out' = <<e>>
          /\ wire' = Append(wire, e)
    /\ task' = [task EXCEPT ![c] = <<>>]
    /\ UNCHANGED <<conn, presence, members, store, last, nev, done, was>>

\* ------------------------------------------------------- specifications
\* a step of a handler that runs to completion
Whole == was' = messages /\ UNCHANGED <<nev, task, done, wire>>

\* the same, in runs of at most MaxEvents events
Counted ==
    /\ nev < MaxEvents
    /\ nev' = nev + 1
    /\ was' = messages
    /\ UNCHANGED <<task, done, wire>>

\* runs of one event more, for the handlers of one kind on their own
Longer ==
    /\ nev <= MaxEvents
    /\ nev' = nev + 1
    /\ was' = messages
    /\ UNCHANGED <<task, done, wire>>

\* every route and handler, each run to completion before the next starts
Next ==
    \/ \E u \in Users : Whole /\ login(u)
    \/ \E t \in Tokens : Whole /\ logout(t)
    \/ \E c \in Sids : Whole /\ on_connect(c)
    \/ \E c \in Sids, d \in AuthData : Whole /\ on_auth(c, d)
    \/ \E c \in Sids : Whole /\ on_disconnect(c)
    \/ \E c \in Sids, d \in JoinData : Whole /\ on_join(c, d)
    \/ \E c \in Sids, d \in MsgData : Whole /\ on_msg(c, d)
    \/ \E c \in Sids, d \in TypingData : Whole /\ on_typing(c, d)
    \/ \E c \in Sids, d \in DeliveredData : Whole /\ on_delivered(c, d)
    \/ \E c \in Sids, d \in ReadData : Whole /\ on_read(c, d)
    \/ \E c \in Sids, d \in ReadAllData : Whole /\ on_read_all(c, d)
    \/ \E c \in Sids, d \in DeleteData : Whole /\ on_delete(c, d)
    \/ \E c \in Sids, d \in EditData : Whole /\ on_edit(c, d)
    \/ \E c \in Sids, d \in ReactData : Whole /\ on_react(c, d)
    \/ \E c \in Sids, d \in PinData : Whole /\ on_pin(c, d)

Spec == Init /\ [][Next]_vars

\* the presence registry on its own: login, logout, connect, auth, disconnect
NextPresence ==
    \/ \E u \in Users : Whole /\ login(u)
    \/ \E t \in Tokens : Whole /\ logout(t)
    \/ \E c \in Sids : Whole /\ on_connect(c)
    \/ \E c \in Sids, d \in AuthData : Whole /\ on_auth(c, d)
    \/ \E c \in Sids : Whole /\ on_disconnect(c)

SpecPresence == Init /\ [][NextPresence]_vars

\* rooms and the message table on their own, with anonymous connections, in
\* runs of at most MaxEvents events
NextStore ==
    \/ \E c \in Sids : Counted /\ on_connect(c)
    \/ \E c \in Sids : Counted /\ on_disconnect(c)
    \/ \E c \in Sids, d \in JoinData : Counted /\ on_join(c, d)
    \/ \E c \in Sids, d \in MsgData : Counted /\ on_msg(c, d)
    \/ \E c \in Sids, d \in TypingData : Counted /\ on_typing(c, d)
    \/ \E c \in Sids, d \in DeliveredData : Counted /\ on_delivered(c, d)
    \/ \E c \in Sids, d \in ReadData : Counted /\ on_read(c, d)
    \/ \E c \in Sids, d \in ReadAllData : Counted /\ on_read_all(c, d)
    \/ \E c \in Sids, d \in DeleteData : Counted /\ on_delete(c, d)
    \/ \E c \in Sids, d \in EditData : Counted /\ on_edit(c, d)
    \/ \E c \in Sids, d \in ReactData : Counted /\ on_react(c, d)
    \/ \E c \in Sids, d \in PinData : Counted /\ on_pin(c, d)

SpecStore == Init /\ [][NextStore]_vars

\* react handlers of different connections interleaved, one per connection
NextReact ==
    \/ \E c \in Sids : Whole /\ on_connect(c)
    \/ \E c \in Sids, d \in ReactData : UNCHANGED <<nev, was, wire>> /\ react_load(c, d)
    \/ \E c \in Sids : UNCHANGED <<nev, was, wire>> /\ react_commit(c)

SpecReact == Init /\ [][NextReact]_vars

\* the read receipts on their own
NextRead ==
    \/ \E c \in Sids : Longer /\ on_connect(c)
    \/ \E c \in Sids, d \in ReadData : Longer /\ on_read(c, d)
    \/ \E c \in Sids, d \in ReadAllData : Longer /\ on_read_all(c, d)

SpecRead == Init /\ [][NextRead]_vars

\* read handlers of different connections interleaved
NextMark ==
    \/ \E c \in Sids : Whole /\ on_connect(c)
    \/ \E c \in Sids, d \in ReadData : read_load(c, d)
    \/ \E c \in Sids : read_commit(c)

SpecMark == Init /\ [][NextMark]_vars

\* edit handlers of different connections interleaved
NextOrder ==
    \/ \E c \in Sids : Whole /\ on_connect(c)
    \/ \E c \in Sids, d \in EditData : edit_commit(c, d)
    \/ \E c \in Sids : edit_build(c)
    \/ \E c \in Sids : edit_emit(c)

SpecOrder == Init /\ [][NextOrder]_vars

\* ----------------------------------------------------------- properties
Offline(u, o) ==
    \E k \in DOMAIN o : o[k].ev = "presence" /\ o[k].data.user = u /\ ~o[k].data.online

Online(u, o) ==
    \E k \in DOMAIN o : o[k].ev = "presence" /\ o[k].data.user = u /\ o[k].data.online

InSet(u, c) == u \in DOMAIN online_users /\ c \in online_users[u]

\* C1: when a connection c1 of user u's connection set disconnects while
\* another connection c2 of the set is still connected, no presence
\* online:false is emitted for u and u stays in the online list; a presence
\* online:false for u is emitted only by the disconnect of a connection of
\* u's set that leaves u without a connection set.
C1_NoOfflineWhileConnected ==
    [][\A u \in Users :
          /\ \A c \in Sids :
                (/\ conn[c] = "open" /\ conn'[c] = "closed"
                 /\ InSet(u, c)
                 /\ \E c2 \in Sids \ {c} : conn[c2] = "open" /\ InSet(u, c2))
                => (~Offline(u, out') /\ u \in DOMAIN online_users')
          /\ Offline(u, out')
                => /\ \E c \in Sids : conn[c] = "open" /\ conn'[c] = "closed" /\ InSet(u, c)
                   /\ u \notin DOMAIN online_users']_vars

\* C1 witness: a connection of user u has just disconnected, only the
\* online_update was emitted, and u is still online through another
\* connection that is open.
C1_Witness ==
    /\ last.op = "disconnect"
    /\ last.d.user # None
    /\ Len(out) = 1
    /\ out[1].ev = "online_update"
    /\ last.d.user \in out[1].data.users
    /\ \E c2 \in Sids : /\ conn[c2] = "open"
                        /\ InSet(last.d.user, c2)
                        /\ c2 \in DOMAIN sid_to_user
                        /\ sid_to_user[c2] = last.d.user

\* C2: two react handlers for the same message and emoji by two different
\* usernames that ran at the same time have both been applied: once both
\* have finished, the stored list of the emoji holds both usernames.
C2_BothTogglesApplied ==
    \A a \in done, b \in done :
        (/\ a.sid # b.sid
         /\ a.sid \in b.during \/ b.sid \in a.during
         /\ a.d.id = b.d.id
         /\ a.d.emoji = b.d.emoji
         /\ a.d.name # b.d.name)
        => LET rx == messages[Find(a.d.id)].reactions
           IN /\ a.d.emoji \in DOMAIN rx
              /\ Contains(rx[a.d.emoji], a.d.name)
              /\ Contains(rx[a.d.emoji], b.d.name)

\* C3: the history a join sends lists the room's messages in the order in
\* which they were created.
C3_HistoryInCreationOrder ==
    last.op = "join" =>
        LET rows == out[1].data.rows
        IN \A i \in DOMAIN rows, j \in DOMAIN rows :
               i < j => Find(rows[i].id) < Find(rows[j].id)

\* the positions of the n rows of the room created last
RECURSIVE Latest(_, _)
Latest(S, n) ==
    IF n = 0 \/ S = {} THEN {}
    ELSE LET i == CHOOSE j \in S : \A k \in S : k <= j
         IN {i} \cup Latest(S \ {i}, n - 1)

\* C4: when the room stores more than HistoryCap messages, the history a
\* join sends holds exactly the HistoryCap messages created last.
C4_HistoryMostRecent ==
    (last.op = "join" /\ Cardinality(InRoom(GetOr(last.d.room, "main"))) > HistoryCap) =>
        LET rows == out[1].data.rows
        IN {Find(rows[k].id) : k \in DOMAIN rows}
               = Latest(InRoom(GetOr(last.d.room, "main")), HistoryCap)

UpdateOps == {"edit_msg", "delete_msg", "react", "pin_msg"}

\* C5: when an edit_msg, delete_msg, react or pin_msg event changes a stored
\* message, a msg_update with the message's new state is addressed to every
\* connection that has joined the room the message is stored in.
C5_UpdateReachesRoom ==
    [][\A i \in 1..Len(messages) :
          (last'.op \in UpdateOps /\ messages'[i] # messages[i]) =>
              \E k \in DOMAIN out' :
                  /\ out'[k].ev = "msg_update"
                  /\ out'[k].data = message_to_dict(messages'[i])
                  /\ \A c \in Open : messages[i].room \in members[c] => c \in out'[k].to]_vars

\* C6: a read, delete_msg, edit_msg, react or pin_msg event that names an id
\* no stored message has leaves the table unchanged and emits nothing.
C6_AbsentIdSilent ==
    [][(/\ last'.op \in UpdateOps \cup {"read"}
        /\ last'.d.id # None
        /\ Find(last'.d.id) = 0)
       => (messages' = messages /\ out' = <<>>)]_vars

MissingField(e) ==
    \/ e.op = "msg" /\ (e.d.room = None \/ e.d.name = None \/ e.d.msg = None)
    \/ e.op = "edit_msg" /\ e.d.msg = None
    \/ e.op = "pin_msg" /\ e.d.pin = None
    \/ e.op = "read_all" /\ e.d.name = None

\* C7: a msg without room, name or text, an edit_msg without text, a pin_msg
\* without the desired state and a read_all without username leave the table
\* unchanged and emit nothing.
C7_MissingFieldDropped ==
    [][MissingField(last') => (messages' = messages /\ out' = <<>>)]_vars

\* C8: an auth emits presence online:true for the user only when the user
\* had no entry in online_users before it.
C8_OnlineOnlyOnFirst ==
    [][\A u \in Users :
          (last'.op = "auth" /\ Online(u, out')) => u \notin DOMAIN online_users]_vars

\* C9: every disconnect emits an online_update that carries the online list.
C9_DisconnectEmitsUpdate ==
    last.op = "disconnect" =>
        \E k \in DOMAIN out : /\ out[k].ev = "online_update"
                              /\ out[k].data.users = DOMAIN online_users

\* C10: the id of a connection that has disconnected is in no user's
\* presence set.
C10_ClosedUnwound ==
    \A c \in Sids : conn[c] = "closed" => \A u \in Users : ~InSet(u, c)

\* the stored row with the id a payload names, as a later session loads it
Stored(id) == message_to_dict(messages[Find(id)])

\* C11: every msg, msg_update, read and read_update emitted shows committed
\* state: the rows in the payload are the rows of the table, and a reader
\* announced for a stored message is in that message's stored read_by.
C11_BroadcastCommitted ==
    \A k \in DOMAIN out :
        LET e == out[k]
        IN /\ e.ev \in {"msg", "msg_update"} =>
                  Find(e.data.id) # 0 /\ e.data = Stored(e.data.id)
           /\ e.ev = "read_update" =>
                  \A j \in DOMAIN e.data.rows :
                      /\ Find(e.data.rows[j].id) # 0
                      /\ e.data.rows[j] = Stored(e.data.rows[j].id)
           /\ (e.ev = "read" /\ Find(e.data.id) # 0) =>
                  Contains(messages[Find(e.data.id)].read_by, e.data.name)

\* the names a reactions dict lists under an emoji; none when the key is absent
Reacted(rx, emoji) == IF emoji \in DOMAIN rx THEN rx[emoji] ELSE <<>>

\* two events in a row carry the same react (message, emoji, user) and the
\* message is stored
SameReactTwice ==
    /\ last.op = "react" /\ last'.op = "react"
    /\ last'.d.id = last.d.id /\ last'.d.emoji = last.d.emoji
    /\ last'.d.name = last.d.name
    /\ last.d.emoji # None /\ last.d.name # None
    /\ Find(last.d.id) # 0

\* C12: two successive react events (m, e, u) leave m's stored list for e as
\* it was before the first of them.
C12_ToggleInvolution ==
    [][SameReactTwice =>
          Reacted(messages'[Find(last.d.id)].reactions, last.d.emoji)
              = Reacted(was[Find(last.d.id)].reactions, last.d.emoji)]_vars

\* C13: a react (m, e, u) on a stored message toggles u in m's stored list
\* for e, leaves every other name and every other emoji's list as they were,
\* and the msg_update it emits shows the reactions so obtained.
C13_ReactToggles ==
    [][(/\ last'.op = "react"
        /\ last'.d.emoji # None /\ last'.d.name # None
        /\ Find(last'.d.id) # 0) =>
           LET i == Find(last'.d.id)
               rx == Toggle(messages[i].reactions, last'.d.emoji, last'.d.name)
           IN /\ messages'[i].reactions = rx
              /\ Len(out') = 1
              /\ out'[1].ev = "msg_update"
              /\ out'[1].data.reactions = rx]_vars

\* C14: a read_all (R, u) emits a read_update only if it added u to the read
\* set of at least one message of R; when every message of R already has u
\* in its read set, or R has no messages, it emits nothing.
C14_ReadAllOnlyOnChange ==
    [][last'.op = "read_all" =>
          LET R == InRoom(last'.d.room)
              u == last'.d.name
          IN /\ out' # <<>> =>
                    \E i \in R : /\ ~Contains(messages[i].read_by, u)
                                 /\ Contains(messages'[i].read_by, u)
             /\ (\A i \in R : Contains(messages[i].read_by, u)) => out' = <<>>]_vars

\* C15: the read_update of a read_all (R, u) lists exactly the messages of R
\* whose read set did not contain u before the event.
C15_ListsChangedOnly ==
    [][(last'.op = "read_all" /\ out' # <<>>) =>
          LET rows == out'[1].data.rows
          IN {rows[j].id : j \in DOMAIN rows}
                 = {messages[i].msg_id : i \in
                       {k \in InRoom(last'.d.room) :
                           ~Contains(messages[k].read_by, last'.d.name)}}]_vars

\* C16: a delete_msg on a stored message sets deleted and replaces the body
\* by the tombstone, leaves every other column of the row and every other
\* row as they were, and its msg_update shows the reactions the message had
\* before the delete.
C16_DeleteKeepsTheRest ==
    [][(last'.op = "delete_msg" /\ Find(last'.d.id) # 0) =>
          LET i == Find(last'.d.id)
          IN /\ messages' = [messages EXCEPT ![i].deleted = TRUE,
                                             ![i].text = Tombstone]
             /\ Len(out') = 1
             /\ out'[1].ev = "msg_update"
             /\ out'[1].data.deleted
             /\ out'[1].data.msg = Tombstone
             /\ out'[1].data.reactions = messages[i].reactions
             /\ out'[1].data.read_by = messages[i].read_by]_vars

\* a message that had a reaction was deleted, and the msg_update shows it
C16_Witness ==
    /\ last.op = "delete_msg"
    /\ Find(last.d.id) # 0
    /\ was[Find(last.d.id)].reactions # Empty
    /\ ~was[Find(last.d.id)].deleted
    /\ messages[Find(last.d.id)].deleted
    /\ out[1].data.reactions = was[Find(last.d.id)].reactions

\* the msg_update emitted at position k is the last one for its message
LastFor(k) ==
    \A j \in DOMAIN wire : j > k => wire[j].data.id # wire[k].data.id

\* C17: the msg_update events for one message are emitted in the order in
\* which their edits were committed (ts is the time of the edit), and once
\* no handler is in flight the last of them carries the stored row.
C17_AnnouncedInCommitOrder ==
    /\ \A j, k \in DOMAIN wire :
           (j < k /\ wire[j].data.id = wire[k].data.id) =>
               wire[j].data.ts <= wire[k].data.ts
    /\ InFlight = {} =>
           \A k \in DOMAIN wire :
               LastFor(k) => wire[k].data = Stored(wire[k].data.id)

\* two events in a row carry the same read (message, user) and the message
\* is stored
SameReadTwice ==
    /\ last.op = "read" /\ last'.op = "read"
    /\ last'.d.id = last.d.id /\ last'.d.name = last.d.name
    /\ last.d.room # None /\ last'.d.room # None
    /\ last.d.name # None
    /\ Find(last.d.id) # 0

Times(arr, x) == Cardinality({k \in DOMAIN arr : arr[k] = x})

\* C18: handling a read (m, u) a second time leaves m's stored read set as
\* the first handling left it, with u listed exactly once.
C18_ReadIdempotent ==
    [][SameReadTwice =>
          LET i == Find(last.d.id)
          IN /\ messages'[i].read_by = messages[i].read_by
             /\ Times(messages'[i].read_by, last.d.name) = 1]_vars

\* C19: an auth whose token is absent or has no Device row, be it never
\* issued or destroyed by logout, leaves sid_to_user and online_users as
\* they were and emits nothing.
C19_UnknownTokenSilent ==
    [][(/\ last'.op = "auth"
        /\ (last'.d.token = None \/ last'.d.token \notin DOMAIN devices)) =>
           /\ sid_to_user' = sid_to_user
           /\ online_users' = online_users
           /\ out' = <<>>]_vars

\* the last event was an auth with a token that login issued and logout
\* destroyed
C19_Witness ==
    /\ last.op = "auth"
    /\ last.d.token \in issued
    /\ last.d.token \notin DOMAIN devices
    /\ out = <<>>

\* C20: whatever the step, every row stays in the table and every name in
\* a row's stored read_by is still in it afterwards.
C20_ReadSetGrows ==
    [][\A i \in DOMAIN messages :
          /\ i \in DOMAIN messages'
          /\ messages'[i].msg_id = messages[i].msg_id
          /\ \A k \in DOMAIN messages[i].read_by :
                 Contains(messages'[i].read_by, messages[i].read_by[k])]_vars

\* C21: a connection is in online_users[u] exactly when sid_to_user maps it
\* to u, and no user is listed with an empty set.
C21_MapsAgree ==
    /\ \A u \in Users, c \in Sids :
           InSet(u, c) <=> (c \in DOMAIN sid_to_user /\ sid_to_user[c] = u)
    /\ \A u \in DOMAIN online_users : online_users[u] # {}

RoomScoped == {"msg", "msg_update", "typing", "delivered", "read", "read_update"}

\* the rooms an emitted room-scoped event is about: the room of the message
\* it carries or names, the room of a typing notice
Concerned(e) ==
    IF e.ev \in {"msg", "msg_update", "typing"} THEN {e.data.room}
    ELSE IF e.ev = "read_update"
         THEN {e.data.rows[j].room : j \in DOMAIN e.data.rows}
         ELSE IF Find(e.data.id) # 0 THEN {messages[Find(e.data.id)].room} ELSE {}

\* C22: a room-scoped event reaches only connections that have joined the
\* room it is about.
C22_RoomScopedDelivery ==
    \A k \in DOMAIN out :
        out[k].ev \in RoomScoped =>
            \A c \in out[k].to : \A r \in Concerned(out[k]) : r \in members[c]

\* C23: a stored message whose deleted flag is true has the tombstone as its
\* body, and no step clears the flag or gives the message another body.
C23_DeletedStaysTombstone ==
    [][/\ \A i \in DOMAIN messages' :
              messages'[i].deleted => messages'[i].text = Tombstone
       /\ \A i \in DOMAIN messages :
              messages[i].deleted => messages'[i].deleted]_vars

====
